---- MODULE Spec2Model ----
(***************************************************************************)
(* Model of recover-broken-vdb (src/recover_broken_vdb/__init__.py).       *)
(*                                                                         *)
(* The tool scans a Portage VDB (find_corrupt_pkgs), classifies every      *)
(* package directory, and for the broken ones regenerates NEEDED,          *)
(* NEEDED.ELF.2, PROVIDES and REQUIRES (fix_vdb) into a prefixed output    *)
(* tree (ModelFileSystem).                                                 *)
(*                                                                         *)
(* Python strings are sequences of one-character strings, so that the      *)
(* substring tests, the regular expressions and the pathlib rewriting are  *)
(* computed as the code computes them.                                     *)
(***************************************************************************)
EXTENDS Integers, Sequences, FiniteSets, TLC

\* ------------------------------------------------------------------------
\* Bounds of the model
\* ------------------------------------------------------------------------

\* largest number of entries path.glob("*/*") yields in one run
MaxPkgs == 2

\* largest number of lines of one CONTENTS file
MaxLines == 2

\* ------------------------------------------------------------------------
\* Python str operations
\* ------------------------------------------------------------------------

\* sub in s
Contains(s, sub) ==
    \E i \in 0..(Len(s) - Len(sub)) : SubSeq(s, i + 1, i + Len(sub)) = sub

\* s.startswith(p)
StartsWith(s, p) ==
    Len(p) <= Len(s) /\ SubSeq(s, 1, Len(p)) = p

\* s.find(sub) + 1, for a sub that occurs in s
FindFirst(s, sub) ==
    CHOOSE i \in 1..(Len(s) - Len(sub) + 1) :
        /\ SubSeq(s, i, i + Len(sub) - 1) = sub
        /\ \A j \in 1..(i - 1) : SubSeq(s, j, j + Len(sub) - 1) # sub

\* s.replace(old, new, 1)
Replace1(s, old, new) ==
    IF ~Contains(s, old) THEN s
    ELSE LET i == FindFirst(s, old)
         IN  SubSeq(s, 1, i - 1) \o new \o SubSeq(s, i + Len(old), Len(s))

RECURSIVE RStrip(_, _)
\* s.rstrip(c)
RStrip(s, c) ==
    IF s # <<>> /\ s[Len(s)] = c THEN RStrip(SubSeq(s, 1, Len(s) - 1), c) ELSE s

RECURSIVE LStrip(_, _)
\* s.lstrip(c)
LStrip(s, c) ==
    IF s # <<>> /\ Head(s) = c THEN LStrip(Tail(s), c) ELSE s

RECURSIVE SplitAcc(_, _, _, _)
SplitAcc(s, sep, cur, acc) ==
    IF s = <<>> THEN Append(acc, cur)
    ELSE IF Head(s) = sep THEN SplitAcc(Tail(s), sep, <<>>, Append(acc, cur))
    ELSE SplitAcc(Tail(s), sep, Append(cur, Head(s)), acc)

\* s.split(sep), sep one character
Split(s, sep) == SplitAcc(s, sep, <<>>, <<>>)

RECURSIVE Join(_, _)
\* sep.join(parts)
Join(parts, sep) ==
    IF parts = <<>> THEN <<>>
    ELSE IF Len(parts) = 1 THEN parts[1]
    ELSE parts[1] \o sep \o Join(Tail(parts), sep)

\* ------------------------------------------------------------------------
\* pathlib.PurePosixPath
\* ------------------------------------------------------------------------

RECURSIVE DropEmptyAndDot(_)
DropEmptyAndDot(parts) ==
    IF parts = <<>> THEN <<>>
    ELSE IF Head(parts) = <<>> \/ Head(parts) = <<".">> THEN DropEmptyAndDot(Tail(parts))
    ELSE <<Head(parts)>> \o DropEmptyAndDot(Tail(parts))

\* the components of a path after the root: empty and "." components vanish
PathParts(s) == DropEmptyAndDot(Split(s, "/"))

\* the root of a path: "//" for exactly two leading slashes, "/" for one or
\* for three and more, "" for a relative path
PathRoot(s) ==
    IF StartsWith(s, <<"/","/">>) /\ ~StartsWith(s, <<"/","/","/">>) THEN <<"/","/">>
    ELSE IF StartsWith(s, <<"/">>) THEN <<"/">>
    ELSE <<>>

\* str(pathlib.Path(s))
PathStr(s) ==
    LET r == PathRoot(s) \o Join(PathParts(s), <<"/">>)
    IN  IF r = <<>> THEN <<".">> ELSE r

\* str(pathlib.Path(s).parent)
PathParent(s) ==
    LET ps == PathParts(s)
        r  == PathRoot(s) \o Join(SubSeq(ps, 1, Len(ps) - 1), <<"/">>)
    IN  IF r = <<>> THEN <<".">> ELSE r

\* ------------------------------------------------------------------------
\* Inputs: command line, database tree, collaborators
\* ------------------------------------------------------------------------

\* the VDB of the runs that vary the database tree only
DefaultVdb == <<"/","d">>

\* values of --vdb
VdbPaths == { <<"/","d">>, <<"/","d","/">>, <<".","/","d">>, <<"/","o","x","/",".">>, <<>> }

\* values of --output; the empty string stands for an absent option too
\* (both are falsy in ModelFileSystem.__init__)
Outputs == { <<>>, <<"/","o">>, <<"/","d">> }

\* the directory tempfile.mkdtemp() returns
MkdTemp == <<"/","t">>

\* working directory of the process, against which relative paths resolve
Cwd == <<"/","w">>

\* category/name entries path.glob("*/*") can yield, relative to the VDB
Cpfs == { <<"c","/","p">>, <<"c","/","q">>, <<"v","i","r","t","u","a","l","/","v">>, <<"a","c","c","t","-","u","/","a">>,
          <<"c","/","-","M","E","R","G","I","N","G","-","p">>, <<"c","/",".","p","o","r","t","a","g","e","_","l","o","c","k","f","i","l","e">> }

\* lines of a CONTENTS file
ContentsLines == { <<"o","b","j"," ","/","l","/","a",".","s","o"," ","0"," ","1">>, <<"o","b","j"," ","/","b","i","n","/","a"," ","0"," ","1">>, <<"o","b","j"," ","/","o","/","a"," ","0"," ","1">>,
                   <<"o","b","j"," ","/","u","s","r","/","s","h","a","r","e","/","a",".","s","o"," ","0"," ","1">>, <<"d","i","r"," ","/","l">>, <<>> }

\* what "file -b" prints
FileOutputs == { <<"E","L","F"," ","s","h","a","r","e","d"," ","o","b","j","e","c","t",","," ","d","y","n","a","m","i","c","a","l","l","y"," ","l","i","n","k","e","d">>,
                 <<"E","L","F"," ","e","x","e","c","u","t","a","b","l","e",","," ","d","y","n","a","m","i","c","a","l","l","y"," ","l","i","n","k","e","d">>,
                 <<"E","L","F"," ","e","x","e","c","u","t","a","b","l","e",","," ","s","t","a","t","i","c","a","l","l","y"," ","l","i","n","k","e","d">>,
                 <<"A","S","C","I","I"," ","t","e","x","t">>,
                 <<"c","a","n","n","o","t"," ","o","p","e","n"," ","(","N","o"," ","s","u","c","h"," ","f","i","l","e"," ","o","r"," ","d","i","r","e","c","t","o","r","y",")">> }

\* the outcomes of subprocess.run(["file", "-b", path]): the process ran and
\* printed stdout, or it could not be launched and subprocess.run raised
ProbeOutcomes ==
    [launched : {TRUE}, stdout : FileOutputs] \cup [launched : {FALSE}, stdout : {<<>>}]

\* what can be on disk in one package directory: which of the records
\* exist (Package.exists) and whether CONTENTS exists
DirFacts ==
    [NEEDED : BOOLEAN, PROVIDES : BOOLEAN, REQUIRES : BOOLEAN, CONTENTS : BOOLEAN]

\* ------------------------------------------------------------------------
\* class Package
\* ------------------------------------------------------------------------

\* Package.__init__
NewPackage(cpf) ==
    [cpf |-> cpf, contents |-> <<>>, dyn_paths |-> <<>>, broken |-> FALSE,
     installs_any_dyn_executable |-> FALSE, installs_any_shared_libs |-> FALSE]

\* ------------------------------------------------------------------------
\* class ModelFileSystem
\* ------------------------------------------------------------------------

\* ModelFileSystem.__init__: str(self.root)
FsRoot(output) == IF output # <<>> THEN PathStr(output) ELSE PathStr(MkdTemp)

\* ModelFileSystem.add: str(new_path)
AddNewPath(root, path, strip) ==
    IF strip # <<>>
    THEN PathStr(Replace1(PathStr(path), RStrip(strip, "/"), root))
    ELSE PathStr(path)

\* ModelFileSystem.add: the "Quick sanity check!"
AddSanityCheck(root, new_path) == StartsWith(new_path, root)

\* ModelFileSystem.add, given str(new_path): "RuntimeError" when the sanity
\* check fails, "ValueError" for blank contents, "FileNotFoundError" when
\* write_text finds no parent directory (only possible when no mkdir ran),
\* else "written"
AddResult(root, new_path, blank, strip, parentExists) ==
    IF strip # <<>> /\ ~AddSanityCheck(root, new_path) THEN "RuntimeError"
    ELSE IF blank THEN "ValueError"
    ELSE IF strip = <<>> /\ ~parentExists THEN "FileNotFoundError"
    ELSE "written"

\* ModelFileSystem.add, given str(new_path): whether mkdir(parents=True) ran
AddMadeDirs(root, new_path, strip) ==
    strip # <<>> /\ AddSanityCheck(root, new_path)

\* ------------------------------------------------------------------------
\* find_corrupt_pkgs: the tests on names, lines, paths and probe output
\* ------------------------------------------------------------------------

\* "virtual/" in package.cpf or "acct-" in package.cpf
SkipName(cpf) == Contains(cpf, <<"v","i","r","t","u","a","l","/">>) \/ Contains(cpf, <<"a","c","c","t","-">>)

\* the early skip asking for REQUIRES as well
FastExitAllThree(e) == e.PROVIDES /\ e.NEEDED /\ e.REQUIRES

\* package.exists("PROVIDES") and package.exists("NEEDED")
FastExit(e) == e.PROVIDES /\ e.NEEDED

\* "-MERGING-" in package.cpf
IsMerging(cpf) == Contains(cpf, <<"-","M","E","R","G","I","N","G","-">>)

\* ".portage_lockfile" in full_path.parts[-1]
IsLockfile(cpf) ==
    LET ps == PathParts(cpf)
    IN  ps # <<>> /\ Contains(ps[Len(ps)], <<".","p","o","r","t","a","g","e","_","l","o","c","k","f","i","l","e">>)

\* line.split(" ", 1) yields two values
HasTwoFields(line) == Contains(line, <<" ">>)

\* installed_type of line.split(" ", 1)
InstalledType(line) == SubSeq(line, 1, FindFirst(line, <<" ">>) - 1)

\* residue.split(" ")[0]
InstalledPath(line) ==
    Split(SubSeq(line, FindFirst(line, <<" ">>) + 1, Len(line)), " ")[1]

\* re.match(".*\.so($|\..*)", installed_path)
SoLike(path) ==
    \E i \in 1..(Len(path) - 2) :
        /\ SubSeq(path, i, i + 2) = <<".","s","o">>
        /\ (i + 2 = Len(path) \/ path[i + 3] = ".")

\* the non-.so path is passed over:
\* not deep and "bin" not in installed_path and "libexec" not in installed_path
UnlikelyPath(path, deep) ==
    ~deep /\ ~Contains(path, <<"b","i","n">>) /\ ~Contains(path, <<"l","i","b","e","x","e","c">>)

\* re.match("^/usr/(share|include)/", installed_path)
IgnorePath(path) ==
    StartsWith(path, <<"/","u","s","r","/","s","h","a","r","e","/">>) \/ StartsWith(path, <<"/","u","s","r","/","i","n","c","l","u","d","e","/">>)

\* the line reaches the call of "file -b"
ReachesProbe(line, deep) ==
    /\ line # <<>>
    /\ InstalledType(line) = <<"o","b","j">>
    /\ (SoLike(InstalledPath(line)) \/ ~UnlikelyPath(InstalledPath(line), deep))
    /\ ~IgnorePath(InstalledPath(line))

\* "ELF" in file_exec_result and "dynamically linked" in file_exec_result
IsDynElf(out) == Contains(out, <<"E","L","F">>) /\ Contains(out, <<"d","y","n","a","m","i","c","a","l","l","y"," ","l","i","n","k","e","d">>)

\* the body of "for line in contents" once the probe has said ELF and
\* dynamically linked: the derived booleans, broken, dyn_paths, contents
RecordBinary(p, path, out) ==
    [p EXCEPT
       !.installs_any_dyn_executable = @ \/ Contains(out, <<"e","x","e","c","u","t","a","b","l","e">>),
       !.installs_any_shared_libs    = @ \/ Contains(out, <<"s","h","a","r","e","d"," ","o","b","j","e","c","t">>),
       !.broken    = TRUE,
       !.dyn_paths = Append(@, path),
       !.contents  = Append(@, path)]

\* ------------------------------------------------------------------------
\* find_corrupt_pkgs: the decision after the scan of one package
\* ------------------------------------------------------------------------

\* step 2 left out: no package is passed over for installing nothing
NothingOfInterestLeftOut(p) == FALSE

\* 2) not installs_any_dyn_executable and not installs_any_shared_libs
NothingOfInterest(p) ==
    ~p.installs_any_dyn_executable /\ ~p.installs_any_shared_libs

\* 3) package.exists("NEEDED") and not package.exists("PROVIDES")
NeededNoProvides(e) == e.NEEDED /\ ~e.PROVIDES

\* step 4 with the two records swapped, repeating the test of step 3
ProvidesNoNeededSwapped(e) == e.NEEDED /\ ~e.PROVIDES

\* 4) package.exists("PROVIDES") and not package.exists("NEEDED")
ProvidesNoNeeded(e) == e.PROVIDES /\ ~e.NEEDED

\* step 5 without the test of REQUIRES
NoRecordsIgnoringRequires(e) == ~e.PROVIDES /\ ~e.NEEDED

\* 5) none of PROVIDES, NEEDED, REQUIRES exists
NoRecords(e) == ~e.PROVIDES /\ ~e.NEEDED /\ ~e.REQUIRES

\* the if / elif chain of lines 263-348
PostScanVerdict(e, p) ==
    IF NothingOfInterest(p) THEN "fine"
    ELSE IF NeededNoProvides(e)
         THEN (IF p.installs_any_shared_libs THEN "broken" ELSE "fine")
    ELSE IF ProvidesNoNeeded(e) THEN "broken"
    ELSE IF NoRecords(e) THEN "broken"
    ELSE "ambiguous"

\* ------------------------------------------------------------------------
\* fix_vdb: the extractor and the soname synthesis
\* ------------------------------------------------------------------------

\* _approx_multilib_categories
ApproxMultilibCategories ==
    [a \in {"386", "68K", "AARCH64", "ALPHA", "ARM", "IA_64", "MIPS", "PARISC",
            "PPC", "PPC64", "S390", "SH", "SPARC", "SPARC32PLUS", "SPARCV9",
            "X86_64"} |->
        CASE a = "386" -> "x86_32"
          [] a = "68K" -> "m68k_32"
          [] a = "AARCH64" -> "arm_64"
          [] a = "ALPHA" -> "alpha_64"
          [] a = "ARM" -> "arm_32"
          [] a = "IA_64" -> "ia64_64"
          [] a = "MIPS" -> "mips_o32"
          [] a = "PARISC" -> "hppa_64"
          [] a = "PPC" -> "ppc_32"
          [] a = "PPC64" -> "ppc_64"
          [] a = "S390" -> "s390_64"
          [] a = "SH" -> "sh_32"
          [] a = "SPARC" -> "sparc_32"
          [] a = "SPARC32PLUS" -> "sparc_32"
          [] a = "SPARCV9" -> "sparc_64"
          [] a = "X86_64" -> "x86_64"]

\* needed.multilib_category after the fill-in of lines 403-406; "" is None
MultilibCategory(needed) ==
    IF needed.multilib_category # "" THEN needed.multilib_category
    ELSE IF needed.arch \in DOMAIN ApproxMultilibCategories
         THEN ApproxMultilibCategories[needed.arch]
    ELSE needed.arch

\* append the items of xs that are not yet in acc
RECURSIVE AddNew(_, _)
AddNew(acc, xs) ==
    IF xs = <<>> THEN acc
    ELSE IF \E i \in 1..Len(acc) : acc[i] = Head(xs) THEN AddNew(acc, Tail(xs))
    ELSE AddNew(Append(acc, Head(xs)), Tail(xs))

\* soname_deps.provides after the records were added: the soname of every
\* record that has one, under its multilib category, duplicates collapsed
RECURSIVE SonameProvides(_)
SonameProvides(records) ==
    IF records = <<>> THEN <<>>
    ELSE LET r == records[Len(records)]
             before == SonameProvides(SubSeq(records, 1, Len(records) - 1))
         IN  IF r.soname = "" THEN before
             ELSE AddNew(before, << <<MultilibCategory(r), r.soname>> >>)

\* soname_deps.requires after the records were added: every needed soname
\* under the multilib category of its record, duplicates collapsed
RECURSIVE SonameRequires(_)
SonameRequires(records) ==
    IF records = <<>> THEN <<>>
    ELSE LET r == records[Len(records)]
             before == SonameRequires(SubSeq(records, 1, Len(records) - 1))
         IN  AddNew(before, [i \in 1..Len(r.needed) |->
                                <<MultilibCategory(r), r.needed[i]>>])

\* lines of NEEDED.ELF.2 as NeededEntry.parse returns them
ElfExecutable ==
    [arch |-> "X86_64", soname |-> "", needed |-> <<"libc.so.6">>,
     multilib_category |-> ""]
ElfLibrary ==
    [arch |-> "X86_64", soname |-> "liba.so.1", needed |-> <<"libc.so.6">>,
     multilib_category |-> ""]
ElfLibraryNoDeps ==
    [arch |-> "RISCV", soname |-> "liba.so.1", needed |-> <<>>,
     multilib_category |-> "riscv_lp64d"]

\* a line of NEEDED.ELF.2 without a character
ElfBlankLine ==
    [arch |-> "", soname |-> "", needed |-> <<>>, multilib_category |-> ""]

\* lines 391-393: the lines of NEEDED.ELF.2 that reach NeededEntry.parse
\* ("if not line: continue")
ParsedLines(text) == SelectSeq(text, LAMBDA line : line # ElfBlankLine)

\* the outcomes of subprocess.run(["recover-broken-vdb-scanelf.sh", ...]):
\* the script cannot be launched, or it ran and left in <tmpdir>/build-info
\* no NEEDED file, or NEEDED and NEEDED.ELF.2 with their text. A text is the
\* sequence of its newline-terminated lines: <<>> is the text without a
\* character, <<"">> is the text "\n".
ExtractorOutcomes ==
    { [launched |-> FALSE, exists |-> FALSE, NEEDED |-> <<>>, ELF2 |-> <<>>],
      [launched |-> TRUE, exists |-> FALSE, NEEDED |-> <<>>, ELF2 |-> <<>>],
      [launched |-> TRUE, exists |-> TRUE, NEEDED |-> <<>>, ELF2 |-> <<>>],
      [launched |-> TRUE, exists |-> TRUE, NEEDED |-> <<"">>,
       ELF2 |-> <<ElfBlankLine>>],
      [launched |-> TRUE, exists |-> TRUE, NEEDED |-> <<"/bin/a libc.so.6">>,
       ELF2 |-> <<ElfExecutable>>],
      [launched |-> TRUE, exists |-> TRUE, NEEDED |-> <<"/l/a.so libc.so.6">>,
       ELF2 |-> <<ElfBlankLine, ElfLibrary>>],
      [launched |-> TRUE, exists |-> TRUE, NEEDED |-> <<"/l/a.so">>,
       ELF2 |-> <<ElfLibraryNoDeps>>] }

\* corrected_vdb once lines 384-411 ran
CorrectedVdb(x) ==
    [NEEDED |-> x.NEEDED, ELF2 |-> x.ELF2,
     PROVIDES |-> SonameProvides(ParsedLines(x.ELF2)),
     REQUIRES |-> SonameRequires(ParsedLines(x.ELF2))]

\* ["NEEDED", "NEEDED.ELF.2", "PROVIDES", "REQUIRES"]
Entries == << <<"N","E","E","D","E","D">>, <<"N","E","E","D","E","D",".","E","L","F",".","2">>, <<"P","R","O","V","I","D","E","S">>, <<"R","E","Q","U","I","R","E","S">> >>

\* corrected_vdb[Entries[i]]
EntryValue(cv, i) ==
    CASE i = 1 -> cv.NEEDED [] i = 2 -> cv.ELF2 [] i = 3 -> cv.PROVIDES
      [] OTHER -> cv.REQUIRES

\* not corrected_vdb[entry]: a text without a character, or an empty
\* PROVIDES or REQUIRES
Blank(value) == value = <<>>

\* entry == "PROVIDES"
IsProvides(i) == Entries[i] = <<"P","R","O","V","I","D","E","S">>

\* line 422: blank PROVIDES of a package that installs shared libraries
SynthesisViolation(cv, p, i) ==
    IsProvides(i) /\ Blank(EntryValue(cv, i)) /\ p.installs_any_shared_libs

\* line 430: blank PROVIDES of a package without shared libraries
SkipProvides(cv, p, i) ==
    IsProvides(i) /\ Blank(EntryValue(cv, i)) /\ ~p.installs_any_shared_libs

\* prefix + "/" + entry.lstrip("/")
EntryPath(vdb_path, p, i) ==
    vdb_path \o <<"/">> \o p.cpf \o <<"/">> \o LStrip(Entries[i], "/")

\* ------------------------------------------------------------------------
\* State
\* ------------------------------------------------------------------------

VARIABLES
    args,                  \* parsed command line: vdb, output, deep
    pc,                    \* where the run stands
    vdb_dirs,              \* entries the glob has still to yield
    entry,                 \* what is on disk in the current package directory
    package,               \* the Package being classified
    linesLeft,             \* lines of CONTENTS still to iterate
    verdict,               \* outcome of the classification of package
    probed,                \* "file -b" was called for package
    contentsChecked,       \* CONTENTS was looked for in the current directory
    broken_packages,       \* find_corrupt_pkgs: broken_packages
    unexpected_case_found, \* find_corrupt_pkgs: unexpected_case_found
    filesystem,            \* str(filesystem.root), <<>> before construction
    fixIdx,                \* position of "for package in corrupt_pkgs"
    corrected_vdb,         \* fix_vdb: corrected_vdb
    entryIdx,              \* position of "for entry in [...]" in fix_vdb
    log,                   \* the entries the current fix_vdb call handled
    fs,                    \* files written by the run: path -> contents
    made,                  \* directories created by the run
    err                    \* exit reason or uncaught exception, "" while running

vars == <<args, pc, vdb_dirs, entry, package, linesLeft, verdict, probed,
          contentsChecked, broken_packages, unexpected_case_found, filesystem,
          fixIdx, corrected_vdb, entryIdx, log, fs, made, err>>

scanVars == <<entry, package, linesLeft, verdict, probed, contentsChecked,
              broken_packages, unexpected_case_found>>

fixVars == <<filesystem, fixIdx, corrected_vdb, entryIdx, log, fs, made>>

NoEntry == [NEEDED |-> FALSE, PROVIDES |-> FALSE, REQUIRES |-> FALSE,
            CONTENTS |-> FALSE]

NoCorrectedVdb ==
    [NEEDED |-> <<>>, ELF2 |-> <<>>, PROVIDES |-> <<>>, REQUIRES |-> <<>>]

\* listings of the VDB: sequences of distinct entries, in any order
Listings ==
    { l \in UNION { [1..n -> Cpfs] : n \in 0..MaxPkgs } :
        \A i, j \in 1..Len(l) : i # j => l[i] # l[j] }

\* the state when the loop of find_corrupt_pkgs starts, for a command line
\* and a listing of the VDB
Start(a, l) ==
    /\ args = a
    /\ pc = "glob"
    /\ vdb_dirs = l
    /\ entry = NoEntry
    /\ package = NewPackage(<<>>)
    /\ linesLeft = 0
    /\ verdict = "none"
    /\ probed = FALSE
    /\ contentsChecked = FALSE
    /\ broken_packages = <<>>
    /\ unexpected_case_found = FALSE
    /\ filesystem = <<>>
    /\ fixIdx = 0
    /\ corrected_vdb = NoCorrectedVdb
    /\ entryIdx = 0
    /\ log = <<>>
    /\ fs = <<>>
    /\ made = {}
    /\ err = ""

\* start() with a VDB at DefaultVdb and neither --output nor --deep, over
\* every listing
InitListings ==
    \E a \in [vdb : {DefaultVdb}, output : {<<>>}, deep : {FALSE}], l \in Listings :
        Start(a, l)

\* start() with every --vdb, --output and --deep, over the listings of at
\* most one entry
InitPaths ==
    \E a \in [vdb : VdbPaths, output : Outputs, deep : BOOLEAN],
       l \in {m \in Listings : Len(m) <= 1} :
        Start(a, l)

Init == InitListings \/ InitPaths

\* ------------------------------------------------------------------------
\* find_corrupt_pkgs
\* ------------------------------------------------------------------------

\* lines 129-169: the next entry of the glob, up to the scan of CONTENTS
NextPkg ==
    /\ pc = "glob"
    /\ vdb_dirs # <<>>
    /\ LET cpf == Head(vdb_dirs)
           byName == SkipName(cpf)
           byMarker == IsMerging(cpf) \/ IsLockfile(cpf)
       IN  \E e \in DirFacts :
             /\ entry' = e
             /\ package' = NewPackage(cpf)
             /\ probed' = FALSE
             /\ vdb_dirs' = Tail(vdb_dirs)
             /\ IF byName \/ (~FastExit(e) /\ byMarker)
                THEN /\ verdict' = "skipped"
                     /\ contentsChecked' = FALSE
                     /\ UNCHANGED <<pc, linesLeft, err>>
                ELSE IF FastExit(e)
                THEN /\ verdict' = "fine"
                     /\ contentsChecked' = FALSE
                     /\ UNCHANGED <<pc, linesLeft, err>>
                ELSE IF ~e.CONTENTS
                THEN /\ verdict' = "nocontents"
                     /\ contentsChecked' = TRUE
                     /\ pc' = "exit1"
                     /\ err' = "no CONTENTS file"
                     /\ UNCHANGED linesLeft
                ELSE /\ verdict' = "pending"
                     /\ contentsChecked' = TRUE
                     /\ pc' = "scan"
                     /\ linesLeft' \in 1..MaxLines
                     /\ UNCHANGED err
    /\ UNCHANGED <<args, broken_packages, unexpected_case_found>>
    /\ UNCHANGED fixVars

\* lines 171-250: one iteration of "for line in contents"
ScanLine ==
    /\ pc = "scan"
    /\ linesLeft > 0
    /\ \E line \in ContentsLines :
        IF line # <<>> /\ ~HasTwoFields(line)
        THEN /\ pc' = "crash"
             /\ err' = "ValueError"
             /\ UNCHANGED <<package, probed, linesLeft>>
        ELSE IF ~ReachesProbe(line, args.deep)
        THEN /\ linesLeft' = linesLeft - 1
             /\ UNCHANGED <<package, probed, pc, err>>
        ELSE \E o \in ProbeOutcomes :
             /\ probed' = TRUE
             /\ IF ~o.launched
                THEN /\ pc' = "crash"
                     /\ err' = "FileNotFoundError"
                     /\ UNCHANGED <<package, linesLeft>>
                ELSE /\ linesLeft' = linesLeft - 1
                     /\ package' = IF IsDynElf(o.stdout)
                                   THEN RecordBinary(package, InstalledPath(line), o.stdout)
                                   ELSE package
                     /\ UNCHANGED <<pc, err>>
    /\ UNCHANGED <<args, vdb_dirs, entry, verdict, contentsChecked,
                   broken_packages, unexpected_case_found>>
    /\ UNCHANGED fixVars

\* lines 263-348: the verdict on the scanned package
PostScan ==
    /\ pc = "scan"
    /\ linesLeft = 0
    /\ verdict' = PostScanVerdict(entry, package)
    /\ broken_packages' = IF verdict' = "broken"
                          THEN Append(broken_packages, package)
                          ELSE broken_packages
    /\ unexpected_case_found' = (unexpected_case_found \/ verdict' = "ambiguous")
    /\ pc' = "glob"
    /\ UNCHANGED <<args, vdb_dirs, entry, package, linesLeft, probed,
                   contentsChecked, err>>
    /\ UNCHANGED fixVars

\* ------------------------------------------------------------------------
\* start(), after find_corrupt_pkgs returned
\* ------------------------------------------------------------------------

\* line 350: find_corrupt_pkgs returns broken_packages and
\* unexpected_case_found; its other locals are gone
ReturnFromScan ==
    /\ entry' = NoEntry
    /\ package' = NewPackage(<<>>)
    /\ linesLeft' = 0
    /\ verdict' = "none"
    /\ probed' = FALSE
    /\ contentsChecked' = FALSE
    /\ UNCHANGED <<broken_packages, unexpected_case_found>>

\* the flag returned by find_corrupt_pkgs is not looked at
UnexpectedAbortIgnored == FALSE

\* line 488: if unexpected_case_found
UnexpectedAbort == unexpected_case_found

\* lines 488-490
AbortUnexpected ==
    /\ pc = "glob"
    /\ vdb_dirs = <<>>
    /\ UnexpectedAbort
    /\ pc' = "exit1"
    /\ err' = "unexpected case(s) found"
    /\ UNCHANGED <<args, vdb_dirs>>
    /\ ReturnFromScan
    /\ UNCHANGED fixVars

\* lines 502-503
NoBroken ==
    /\ pc = "glob"
    /\ vdb_dirs = <<>>
    /\ ~UnexpectedAbort
    /\ broken_packages = <<>>
    /\ pc' = "done"
    /\ UNCHANGED <<args, vdb_dirs, err>>
    /\ ReturnFromScan
    /\ UNCHANGED fixVars

\* lines 492-496
BeginFix ==
    /\ pc = "glob"
    /\ vdb_dirs = <<>>
    /\ ~UnexpectedAbort
    /\ broken_packages # <<>>
    /\ filesystem' = FsRoot(args.output)
    /\ fixIdx' = 1
    /\ pc' = "fix"
    /\ UNCHANGED <<args, vdb_dirs, err, corrected_vdb, entryIdx, log, fs, made>>
    /\ ReturnFromScan

\* ------------------------------------------------------------------------
\* fix_vdb
\* ------------------------------------------------------------------------

\* lines 498-499 and 365-413: the next broken package, up to the loop over
\* the entries
FixPkg ==
    /\ pc = "fix"
    /\ fixIdx <= Len(broken_packages)
    /\ \E x \in ExtractorOutcomes :
        IF ~x.launched
        THEN /\ pc' = "crash"
             /\ err' = "FileNotFoundError"
             /\ UNCHANGED <<fixIdx, entryIdx, log, corrected_vdb>>
        ELSE IF ~x.exists
        THEN /\ fixIdx' = fixIdx + 1
             /\ UNCHANGED <<pc, err, entryIdx, log, corrected_vdb>>
        ELSE /\ corrected_vdb' = CorrectedVdb(x)
             /\ entryIdx' = 1
             /\ pc' = "write"
             /\ UNCHANGED <<err, log, fixIdx>>
    /\ UNCHANGED <<args, vdb_dirs, filesystem, fs, made>>
    /\ UNCHANGED scanVars

\* lines 415-448: one iteration of "for entry in [...]"
WriteEntry ==
    /\ pc = "write"
    /\ entryIdx <= Len(Entries)
    /\ LET p == broken_packages[fixIdx]
           value == EntryValue(corrected_vdb, entryIdx)
       IN  IF SynthesisViolation(corrected_vdb, p, entryIdx)
           THEN /\ pc' = "crash"
                /\ err' = "RuntimeError: no PROVIDES generated"
                /\ UNCHANGED <<entryIdx, log, fs, made>>
           ELSE IF SkipProvides(corrected_vdb, p, entryIdx)
           THEN /\ entryIdx' = entryIdx + 1
                /\ log' = Append(log, [entry |-> entryIdx, result |-> "skipped"])
                /\ UNCHANGED <<pc, err, fs, made>>
           ELSE \E parentExists \in (IF args.vdb = <<>> THEN BOOLEAN ELSE {TRUE}) :
                LET new_path == AddNewPath(filesystem,
                                           EntryPath(args.vdb, p, entryIdx), args.vdb)
                    result   == AddResult(filesystem, new_path, Blank(value),
                                          args.vdb, parentExists)
                IN  /\ log' = Append(log, [entry |-> entryIdx, result |-> result])
                    /\ made' = IF AddMadeDirs(filesystem, new_path, args.vdb)
                               THEN made \cup {PathParent(new_path)}
                               ELSE made
                    /\ fs' = IF result = "written"
                             THEN [f \in DOMAIN fs \cup {new_path} |->
                                      IF f = new_path THEN value ELSE fs[f]]
                             ELSE fs
                    /\ IF result \in {"written", "ValueError"}
                       THEN /\ entryIdx' = entryIdx + 1
                            /\ UNCHANGED <<pc, err>>
                       ELSE /\ pc' = "crash"
                            /\ err' = IF result = "RuntimeError"
                                      THEN "RuntimeError: non-prefixed path"
                                      ELSE result
                            /\ UNCHANGED entryIdx
    /\ UNCHANGED <<args, vdb_dirs, filesystem, fixIdx, corrected_vdb>>
    /\ UNCHANGED scanVars

\* lines 450-451: fix_vdb returns, the loop of start() moves on
EndFix ==
    /\ pc = "write"
    /\ entryIdx > Len(Entries)
    /\ fixIdx' = fixIdx + 1
    /\ pc' = "fix"
    /\ corrected_vdb' = NoCorrectedVdb
    /\ entryIdx' = 0
    /\ log' = <<>>
    /\ UNCHANGED <<args, vdb_dirs, err, filesystem, fs, made>>
    /\ UNCHANGED scanVars

\* line 501: every broken package was handed to fix_vdb
Written ==
    /\ pc = "fix"
    /\ fixIdx > Len(broken_packages)
    /\ pc' = "done"
    /\ UNCHANGED <<args, vdb_dirs, err>>
    /\ UNCHANGED scanVars
    /\ UNCHANGED fixVars

Next ==
    \/ NextPkg
    \/ ScanLine
    \/ PostScan
    \/ AbortUnexpected
    \/ NoBroken
    \/ BeginFix
    \/ FixPkg
    \/ WriteEntry
    \/ EndFix
    \/ Written

Spec == Init /\ [][Next]_vars

\* ------------------------------------------------------------------------
\* Vocabulary of the properties
\* ------------------------------------------------------------------------

\* the run is over: exit code 0, sys.exit(1), or an uncaught exception
Terminal == pc \in {"done", "exit1", "crash"}

\* the state right after the verdict on a scanned package
Scanned == pc = "glob" /\ contentsChecked

\* the components of a path from the file system root; a relative path
\* resolves against the working directory
Resolve(path) ==
    IF PathRoot(path) = <<>> THEN PathParts(Cwd) \o PathParts(path)
    ELSE PathParts(path)

\* file or directory path lies in directory dir (or is dir itself)
Inside(path, dir) == StartsWith(Resolve(path), Resolve(dir))

\* package is the last element of broken_packages
LastBroken ==
    /\ broken_packages # <<>>
    /\ broken_packages[Len(broken_packages)] = package

\* no element of broken_packages is the current package directory
NotListed ==
    \A i \in 1..Len(broken_packages) : broken_packages[i].cpf # package.cpf

\* the decision table of the specification, first matching row:
\* n, p, r = NEEDED, PROVIDES, REQUIRES exist; s = installs shared
\* libraries; x = installs dynamically linked executables
DecisionTable(n, p, r, s, x) ==
    IF ~s /\ ~x THEN "fine"
    ELSE IF n /\ ~p /\ ~s /\ x THEN "fine"
    ELSE IF n /\ ~p /\ s THEN "broken"
    ELSE IF ~n /\ p THEN "broken"
    ELSE IF ~n /\ ~p /\ ~r /\ (s \/ x) THEN "broken"
    ELSE "ambiguous"

\* ------------------------------------------------------------------------
\* C1
\* ------------------------------------------------------------------------

\* C1 as stated: a run that met an ambiguous package classifies every
\* remaining package directory and then aborts on the ambiguity, with no
\* write; so it can end only by the abort of lines 488-490.
C1_ClassifiesAllThenAborts ==
    (unexpected_case_found /\ Terminal) =>
        /\ pc = "exit1"
        /\ err = "unexpected case(s) found"
        /\ vdb_dirs = <<>>
        /\ filesystem = <<>> /\ fs = <<>> /\ made = {} /\ fixIdx = 0

\* C1 amended: an ambiguous verdict never ends the loop by itself (the run is
\* back at the glob), and a run that met one never builds the
\* ModelFileSystem, never calls fix_vdb or add and never writes; it ends
\* either by the abort of lines 488-490 once the listing is exhausted, or
\* earlier because a later directory has no CONTENTS or its scan raised.
C1_NoWriteAfterAmbiguous ==
    /\ verdict = "ambiguous" => pc = "glob"
    /\ unexpected_case_found =>
        /\ filesystem = <<>> /\ fs = <<>> /\ made = {} /\ fixIdx = 0
        /\ pc \in {"glob", "scan", "exit1", "crash"}
        /\ pc = "exit1" =>
             \/ err = "unexpected case(s) found" /\ vdb_dirs = <<>>
             \/ err = "no CONTENTS file" /\ verdict = "nocontents"
        /\ pc = "crash" => err \in {"FileNotFoundError", "ValueError"}

\* a run aborted on the ambiguity although a package was classified broken
C1_Witness ==
    /\ pc = "exit1"
    /\ err = "unexpected case(s) found"
    /\ unexpected_case_found
    /\ broken_packages # <<>>

\* ------------------------------------------------------------------------
\* C2
\* ------------------------------------------------------------------------

\* C2: every package of broken_packages installs a dynamically linked
\* executable or a shared library, and a scanned package that installs
\* neither is fine whichever of NEEDED, PROVIDES, REQUIRES exist.
C2_BrokenInstallsBinary ==
    /\ \A i \in 1..Len(broken_packages) :
          \/ broken_packages[i].installs_any_dyn_executable
          \/ broken_packages[i].installs_any_shared_libs
    /\ ( /\ Scanned
         /\ ~package.installs_any_dyn_executable
         /\ ~package.installs_any_shared_libs )
       => (verdict = "fine" /\ NotListed)

\* a package with PROVIDES and without NEEDED, probed, nothing found: fine
C2_Witness ==
    /\ Scanned
    /\ entry.PROVIDES /\ ~entry.NEEDED
    /\ probed
    /\ ~package.installs_any_dyn_executable
    /\ ~package.installs_any_shared_libs
    /\ verdict = "fine"

\* ------------------------------------------------------------------------
\* C3
\* ------------------------------------------------------------------------

\* C3 as stated: a scanned package with PROVIDES and without NEEDED is
\* broken, whatever the manifest contains and the probes report.
C3_ProvidesNoNeededAlwaysBroken ==
    (Scanned /\ entry.PROVIDES /\ ~entry.NEEDED) =>
        (verdict = "broken" /\ LastBroken)

\* C3 amended: a scanned package with PROVIDES and without NEEDED is broken,
\* and appended to broken_packages, exactly when the scan found a
\* dynamically linked ELF executable or shared object; when it found none
\* the package is fine.
C3_ProvidesNoNeededBrokenIfBinary ==
    (Scanned /\ entry.PROVIDES /\ ~entry.NEEDED) =>
        IF \/ package.installs_any_dyn_executable
           \/ package.installs_any_shared_libs
        THEN verdict = "broken" /\ LastBroken
        ELSE verdict = "fine" /\ NotListed

\* PROVIDES without NEEDED, an executable only, REQUIRES present: broken
C3_Witness ==
    /\ Scanned
    /\ entry.PROVIDES /\ ~entry.NEEDED /\ entry.REQUIRES
    /\ package.installs_any_dyn_executable
    /\ ~package.installs_any_shared_libs
    /\ verdict = "broken"
    /\ LastBroken

\* ------------------------------------------------------------------------
\* C4
\* ------------------------------------------------------------------------

\* C4: the step that takes a directory with both NEEDED and PROVIDES from
\* the glob leaves the run in the loop, does not look for CONTENTS, runs no
\* probe, appends nothing to broken_packages and leaves
\* unexpected_case_found as it was; the directory is fine (or passed over
\* for its name).
C4_FastExit ==
    [][ (vdb_dirs' # vdb_dirs /\ entry'.NEEDED /\ entry'.PROVIDES) =>
          /\ pc' = "glob"
          /\ verdict' \in {"fine", "skipped"}
          /\ ~contentsChecked'
          /\ probed' = FALSE
          /\ broken_packages' = broken_packages
          /\ unexpected_case_found' = unexpected_case_found
          /\ err' = "" ]_vars

\* a directory with NEEDED and PROVIDES and without CONTENTS was found fine
\* and the run goes on
C4_Witness ==
    /\ pc = "glob"
    /\ entry.NEEDED /\ entry.PROVIDES /\ ~entry.CONTENTS
    /\ verdict = "fine"
    /\ ~contentsChecked
    /\ package.cpf \in {<<"c","/","p">>, <<"c","/","q">>}

\* ------------------------------------------------------------------------
\* C5
\* ------------------------------------------------------------------------

\* C5: the verdict on a scanned package is the first matching row of the
\* decision table; it is ambiguous exactly when NEEDED and PROVIDES are
\* absent, REQUIRES is present and some binary is installed; a broken
\* package and no other is appended to broken_packages, an ambiguous one
\* raises unexpected_case_found.
C5_VerdictIsDecisionTable ==
    Scanned =>
        LET n == entry.NEEDED
            p == entry.PROVIDES
            r == entry.REQUIRES
            s == package.installs_any_shared_libs
            x == package.installs_any_dyn_executable
        IN  /\ verdict = DecisionTable(n, p, r, s, x)
            /\ verdict \in {"fine", "broken", "ambiguous"}
            /\ (verdict = "ambiguous") <=> (~n /\ ~p /\ r /\ (s \/ x))
            /\ (verdict = "broken") <=> LastBroken
            /\ (verdict = "ambiguous") => unexpected_case_found

\* REQUIRES alone, a shared library and an executable installed: ambiguous
C5_Witness ==
    /\ Scanned
    /\ ~entry.NEEDED /\ ~entry.PROVIDES /\ entry.REQUIRES
    /\ package.installs_any_shared_libs
    /\ package.installs_any_dyn_executable
    /\ verdict = "ambiguous"
    /\ unexpected_case_found

\* ------------------------------------------------------------------------
\* C6
\* ------------------------------------------------------------------------

\* C6: every file the run wrote through ModelFileSystem.add lies inside the
\* staging root.
C6_WritesInsideStagingRoot ==
    \A f \in DOMAIN fs : Inside(f, filesystem)

\* ------------------------------------------------------------------------
\* C7
\* ------------------------------------------------------------------------

\* C7: no file the run wrote lies under the database root.
C7_LiveDatabaseUntouched ==
    \A f \in DOMAIN fs : ~Inside(f, args.vdb)

\* ------------------------------------------------------------------------
\* C8
\* ------------------------------------------------------------------------

\* C8: a run in which fix_vdb raised the synthesis error never ends while
\* broken packages are still waiting for fix_vdb.
C8_SynthesisErrorSparesOthers ==
    ~( /\ Terminal
       /\ err = "RuntimeError: no PROVIDES generated"
       /\ fixIdx < Len(broken_packages) )

\* ------------------------------------------------------------------------
\* C9
\* ------------------------------------------------------------------------

\* C9: the classification pass never ends by an exception of the probe.
C9_ProbeFailureNeverAborts ==
    ~( /\ pc = "crash"
       /\ fixIdx = 0
       /\ probed
       /\ err = "FileNotFoundError" )

\* ------------------------------------------------------------------------
\* C10
\* ------------------------------------------------------------------------

\* C10: in a fix_vdb call that got a NEEDED file and met no synthesis
\* error, the entries are handled in the order NEEDED, NEEDED.ELF.2,
\* PROVIDES, REQUIRES; a non-blank one is written, a blank PROVIDES of a
\* package without shared libraries is skipped without a call of add, any
\* other blank one is refused by add with ValueError, and the loop goes on to
\* the next entry in each case.
C10_StagesNonBlankInOrder ==
    ( /\ pc \in {"write", "crash"}
      /\ fixIdx \in 1..Len(broken_packages)
      /\ entryIdx \in 1..(Len(Entries) + 1)
      /\ err # "RuntimeError: no PROVIDES generated" )
    =>
      /\ pc = "write"
      /\ Len(log) = entryIdx - 1
      /\ \A k \in 1..Len(log) :
            /\ log[k].entry = k
            /\ log[k].result =
                 IF ~Blank(EntryValue(corrected_vdb, k)) THEN "written"
                 ELSE IF Entries[k] = <<"P","R","O","V","I","D","E","S">>
                         /\ ~broken_packages[fixIdx].installs_any_shared_libs
                      THEN "skipped"
                 ELSE "ValueError"
====
